---- MODULE Spec2Model ----
(***************************************************************************)
(* Model of phoneLocation/v2: the ErrorCode enumeration (error_types.py),  *)
(* the Result envelope (result.py) and PhoneLocationService (service.py).  *)
(*                                                                         *)
(* Python values are tagged records, so that values of different Python    *)
(* types can be compared.  A Python str is a sequence of text fragments;   *)
(* a phone number is a str whose fragments are single characters.  The     *)
(* Chinese literals of the source are written in English.                  *)
(***************************************************************************)
EXTENDS Integers, Sequences, FiniteSets, TLC

VARIABLES
    enum_members,    \* the members of the class ErrorCode, each with its code, desc and retryable
    service,         \* the PhoneLocationService instance: its api_key and timeout
    init_outcome,    \* how the last PhoneLocationService(...) call ended
    pc,              \* position of the query call in progress
    phone_number,    \* query's argument phone_number
    timeout,         \* query's argument timeout
    actual_timeout,  \* query's local actual_timeout
    steps,           \* the blocks of query the call in progress has executed
    remote,          \* what the Provider did when the call in progress invoked it
    waited,          \* the seconds the call in progress has waited for the Provider
    outcome,         \* how the query call ended: a returned value or a raised exception
    result,          \* a Result object held by a caller of result.py
    call,            \* the factory call that built `result`, with its arguments
    observed,        \* the last method called on `result` and what it gave
    threads          \* the query calls that threads run concurrently on the one service

serviceVars ==
    <<service, init_outcome, pc, phone_number, timeout, actual_timeout, steps, remote, waited,
      outcome>>
resultVars == <<result, call, observed>>
vars == <<enum_members, service, init_outcome, pc, phone_number, timeout, actual_timeout, steps,
          remote, waited, outcome, result, call, observed, threads>>

----------------------------------------------------------------------------
(* Bounds of the model *)

\* timeouts are drawn from -MaxTimeout..MaxTimeout (and None)
MaxTimeout == 2
\* phone numbers are strings of 0..MaxLen characters
MaxLen == 12
\* the longest a call is followed while it waits for the Provider
MaxWait == MaxTimeout + 2

----------------------------------------------------------------------------
(* Python values *)

PyNone == [t |-> "None"]
PyInt(n) == [t |-> "int", i |-> n]
PyStr(s) == [t |-> "str", s |-> s]
PyBool(b) == [t |-> "bool", b |-> b]
\* a dict is the set of its (key, value) items
PyDict(d) == [t |-> "dict", d |-> d]
PyEnum(name) == [t |-> "ErrorCode", name |-> name]

\* Python truthiness (bool(v)) of the values used here
Truthy(v) ==
    CASE v.t = "None" -> FALSE
      [] v.t = "int" -> v.i # 0
      [] v.t = "str" -> Len(v.s) > 0
      [] v.t = "dict" -> v.d # {}
      [] v.t = "bool" -> v.b
      [] OTHER -> TRUE

\* how a call ends
Returned(v) == [kind |-> "return", value |-> v]
Raised(e) == [kind |-> "raise", exc |-> e]
NoOutcome == [kind |-> "none"]

----------------------------------------------------------------------------
(* error_types.py: class ErrorCode(Enum) *)

\* the class body with two members of the same code
ErrorCodeTable_duplicate_code ==
    [INVALID_PARAMETER |->
        [code |-> "INVALID_PARAMETER", desc |-> "invalid parameter", retryable |-> FALSE],
     MISSING_PARAMETER |->
        [code |-> "INVALID_PARAMETER", desc |-> "missing required parameter", retryable |-> FALSE],
     AUTH_FAILED |->
        [code |-> "AUTH_FAILED", desc |-> "authentication failed", retryable |-> FALSE],
     PERMISSION_DENIED |->
        [code |-> "PERMISSION_DENIED", desc |-> "permission denied", retryable |-> FALSE],
     CREDENTIALS_INVALID |->
        [code |-> "CREDENTIALS_INVALID", desc |-> "credentials invalid", retryable |-> FALSE],
     RATE_LIMITED |->
        [code |-> "RATE_LIMITED", desc |-> "rate limited", retryable |-> TRUE],
     QUOTA_EXCEEDED |->
        [code |-> "QUOTA_EXCEEDED", desc |-> "quota exceeded", retryable |-> TRUE],
     TIMEOUT |->
        [code |-> "TIMEOUT", desc |-> "request timed out", retryable |-> TRUE],
     SERVICE_UNAVAILABLE |->
        [code |-> "SERVICE_UNAVAILABLE", desc |-> "service unavailable", retryable |-> TRUE],
     PARTIAL_FAILURE |->
        [code |-> "PARTIAL_FAILURE", desc |-> "partially degraded", retryable |-> TRUE]]

\* the class body: the members as defined, each with (code, desc, retryable)
ErrorCodeTable ==
    [INVALID_PARAMETER |->
        [code |-> "INVALID_PARAMETER", desc |-> "invalid parameter", retryable |-> FALSE],
     MISSING_PARAMETER |->
        [code |-> "MISSING_PARAMETER", desc |-> "missing required parameter", retryable |-> FALSE],
     AUTH_FAILED |->
        [code |-> "AUTH_FAILED", desc |-> "authentication failed", retryable |-> FALSE],
     PERMISSION_DENIED |->
        [code |-> "PERMISSION_DENIED", desc |-> "permission denied", retryable |-> FALSE],
     CREDENTIALS_INVALID |->
        [code |-> "CREDENTIALS_INVALID", desc |-> "credentials invalid", retryable |-> FALSE],
     RATE_LIMITED |->
        [code |-> "RATE_LIMITED", desc |-> "rate limited", retryable |-> TRUE],
     QUOTA_EXCEEDED |->
        [code |-> "QUOTA_EXCEEDED", desc |-> "quota exceeded", retryable |-> TRUE],
     TIMEOUT |->
        [code |-> "TIMEOUT", desc |-> "request timed out", retryable |-> TRUE],
     SERVICE_UNAVAILABLE |->
        [code |-> "SERVICE_UNAVAILABLE", desc |-> "service unavailable", retryable |-> TRUE],
     PARTIAL_FAILURE |->
        [code |-> "PARTIAL_FAILURE", desc |-> "partially degraded", retryable |-> TRUE]]

\* the names of the members in the order of their definition, the order in
\* which `for error in ErrorCode` visits them
ErrorCodeOrder ==
    <<"INVALID_PARAMETER", "MISSING_PARAMETER", "AUTH_FAILED", "PERMISSION_DENIED",
      "CREDENTIALS_INVALID", "RATE_LIMITED", "QUOTA_EXCEEDED", "TIMEOUT",
      "SERVICE_UNAVAILABLE", "PARTIAL_FAILURE">>

\* the names of the members of the enumeration
ErrorCode == DOMAIN enum_members

\* the properties code, desc and retryable of a member: its _code, _desc, _retryable
ErrorCode_code(e) == enum_members[e.name].code
ErrorCode_desc(e) == PyStr(<<enum_members[e.name].desc>>)
ErrorCode_retryable(e) == enum_members[e.name].retryable

\* the module is imported: the class ErrorCode is built from its body
EnumInit == enum_members = ErrorCodeTable

\* the attribute access ErrorCode.<name>: the member, or AttributeError
ErrorCode_getattr(name) ==
    IF name \in ErrorCode THEN Returned(PyEnum(name)) ELSE Raised("AttributeError")

\* a mapping without the entry of PARTIAL_FAILURE
ErrorCode_to_http_status_without_last(e) ==
    CASE e.name \in {"INVALID_PARAMETER", "MISSING_PARAMETER"} -> 400
      [] e.name \in {"AUTH_FAILED", "CREDENTIALS_INVALID"} -> 401
      [] e.name = "PERMISSION_DENIED" -> 403
      [] e.name \in {"RATE_LIMITED", "QUOTA_EXCEEDED"} -> 429
      [] e.name = "TIMEOUT" -> 504
      [] e.name = "SERVICE_UNAVAILABLE" -> 503
      [] OTHER -> 500

\* ErrorCode.to_http_status: mapping.get(self, 500)
ErrorCode_to_http_status(e) ==
    CASE e.name \in {"INVALID_PARAMETER", "MISSING_PARAMETER"} -> 400
      [] e.name \in {"AUTH_FAILED", "CREDENTIALS_INVALID"} -> 401
      [] e.name = "PERMISSION_DENIED" -> 403
      [] e.name \in {"RATE_LIMITED", "QUOTA_EXCEEDED"} -> 429
      [] e.name = "TIMEOUT" -> 504
      [] e.name = "SERVICE_UNAVAILABLE" -> 503
      [] e.name = "PARTIAL_FAILURE" -> 206
      [] OTHER -> 500

\* ErrorCode.from_code giving a default member for an unknown code
ErrorCode_from_code_default(code) ==
    LET hits == SelectSeq(ErrorCodeOrder,
                          LAMBDA n : n \in ErrorCode /\ PyStr(<<ErrorCode_code(PyEnum(n))>>) = code)
    IN IF Len(hits) > 0 THEN Returned(PyEnum(hits[1]))
       ELSE Returned(PyEnum("SERVICE_UNAVAILABLE"))

\* ErrorCode.from_code(code): the first member, in the order of definition,
\* whose code equals `code`; ValueError when there is none
ErrorCode_from_code(code) ==
    LET hits == SelectSeq(ErrorCodeOrder,
                          LAMBDA n : n \in ErrorCode /\ PyStr(<<ErrorCode_code(PyEnum(n))>>) = code)
    IN IF Len(hits) > 0 THEN Returned(PyEnum(hits[1]))
       ELSE Raised("ValueError")

\* the members of the enumeration in the order of definition (list(ErrorCode))
ErrorCode_list ==
    LET names == SelectSeq(ErrorCodeOrder, LAMBDA n : n \in ErrorCode)
    IN [i \in 1..Len(names) |-> PyEnum(names[i])]

\* get_all_retryable_errors()
get_all_retryable_errors == SelectSeq(ErrorCode_list, LAMBDA e : ErrorCode_retryable(e))

\* get_all_non_retryable_errors()
get_all_non_retryable_errors == SelectSeq(ErrorCode_list, LAMBDA e : ~ErrorCode_retryable(e))

\* get_input_errors()
get_input_errors == <<PyEnum("INVALID_PARAMETER"), PyEnum("MISSING_PARAMETER")>>

\* get_auth_errors()
get_auth_errors ==
    <<PyEnum("AUTH_FAILED"), PyEnum("PERMISSION_DENIED"), PyEnum("CREDENTIALS_INVALID")>>

\* get_resource_errors()
get_resource_errors == <<PyEnum("RATE_LIMITED"), PyEnum("QUOTA_EXCEEDED")>>

\* get_timeout_errors()
get_timeout_errors == <<PyEnum("TIMEOUT")>>

\* get_service_errors without the member defined last
get_service_errors_without_last == <<PyEnum("SERVICE_UNAVAILABLE")>>

\* get_service_errors()
get_service_errors == <<PyEnum("SERVICE_UNAVAILABLE"), PyEnum("PARTIAL_FAILURE")>>

----------------------------------------------------------------------------
(* models.py *)

\* the dataclass PhoneLocation
PhoneLocation(number, province, city, carrier, is_valid) ==
    [t |-> "PhoneLocation", phone_number |-> number, province |-> province,
     city |-> city, carrier |-> carrier, is_valid |-> is_valid]

----------------------------------------------------------------------------
(* result.py: class Result *)

EmptyDict == PyDict({})

\* the dataclass constructor Result(success, data, error_code, error_message, metadata)
Result(success, data, error_code, error_message, metadata) ==
    [t |-> "Result", success |-> success, data |-> data, error_code |-> error_code,
     error_message |-> error_message, metadata |-> metadata]

\* metadata or {}
OrEmptyDict(metadata) == IF Truthy(metadata) THEN metadata ELSE EmptyDict

\* Result.success(data, metadata=None)
Result_success(data, metadata) ==
    Result(TRUE, data, PyNone, PyNone, OrEmptyDict(metadata))

\* Result.error without the default of error_message
Result_error_no_default(error_code, error_message, metadata) ==
    Result(FALSE, PyNone, error_code, error_message, OrEmptyDict(metadata))

\* Result.error taking an empty error_message for an omitted one
Result_error_falsy_default(error_code, error_message, metadata) ==
    LET message == IF ~Truthy(error_message) THEN ErrorCode_desc(error_code)
                   ELSE error_message
    IN Result(FALSE, PyNone, error_code, message, OrEmptyDict(metadata))

\* Result.error(error_code, error_message=None, metadata=None)
Result_error(error_code, error_message, metadata) ==
    LET message == IF error_message = PyNone THEN ErrorCode_desc(error_code)
                   ELSE error_message
    IN Result(FALSE, PyNone, error_code, message, OrEmptyDict(metadata))

\* Result.is_retryable taking every failure for retryable
Result_is_retryable_any_failure(r) == ~r.success

\* Result.is_retryable()
Result_is_retryable(r) ==
    IF r.success THEN FALSE
    ELSE IF r.error_code = PyNone THEN FALSE
    ELSE ErrorCode_retryable(r.error_code)

\* Result.to_dict without the test of self.metadata: the key is always there
Result_to_dict_always_metadata(r) ==
    [k \in {"success"} |-> PyBool(r.success)]
    @@ (IF r.success
        THEN [k \in {"data"} |-> r.data]
        ELSE (IF Truthy(r.error_code)
              THEN [k \in {"error_code"} |-> PyStr(<<ErrorCode_code(r.error_code)>>)]
              ELSE [k \in {} |-> PyNone])
             @@ [k \in {"error_message"} |-> r.error_message]
             @@ [k \in {"retryable"} |-> PyBool(Result_is_retryable(r))])
    @@ [k \in {"metadata"} |-> r.metadata]

\* Result.to_dict giving the data key only for a truthy payload
Result_to_dict_data_if_truthy(r) ==
    [k \in {"success"} |-> PyBool(r.success)]
    @@ (IF r.success
        THEN (IF Truthy(r.data) THEN [k \in {"data"} |-> r.data] ELSE [k \in {} |-> PyNone])
        ELSE (IF Truthy(r.error_code)
              THEN [k \in {"error_code"} |-> PyStr(<<ErrorCode_code(r.error_code)>>)]
              ELSE [k \in {} |-> PyNone])
             @@ [k \in {"error_message"} |-> r.error_message]
             @@ [k \in {"retryable"} |-> PyBool(Result_is_retryable(r))])
    @@ (IF Truthy(r.metadata) THEN [k \in {"metadata"} |-> r.metadata]
        ELSE [k \in {} |-> PyNone])

\* Result.to_dict(): a mapping from the keys present to their values
Result_to_dict(r) ==
    LET base == [k \in {"success"} |-> PyBool(r.success)]
        side == IF r.success
                THEN [k \in {"data"} |-> r.data]
                ELSE (IF Truthy(r.error_code)
                      THEN [k \in {"error_code"} |-> PyStr(<<ErrorCode_code(r.error_code)>>)]
                      ELSE [k \in {} |-> PyNone])
                     @@ [k \in {"error_message"} |-> r.error_message]
                     @@ [k \in {"retryable"} |-> PyBool(Result_is_retryable(r))]
        meta == IF Truthy(r.metadata)
                THEN [k \in {"metadata"} |-> r.metadata]
                ELSE [k \in {} |-> PyNone]
    IN base @@ side @@ meta

\* Result.to_http_status()
Result_to_http_status(r) ==
    IF r.success THEN 200
    ELSE IF r.error_code = PyNone THEN 500
    ELSE ErrorCode_to_http_status(r.error_code)

\* Result.__bool__ derived from the presence of data
Result_bool_from_data(r) == Truthy(r.data)

\* Result.__bool__()
Result_bool(r) == r.success

\* the deserializer of a peer that received to_dict()'s record: the Result is
\* rebuilt by the factories, error_code being resolved by ErrorCode.from_code
deserialize(record) ==
    LET metadata == IF "metadata" \in DOMAIN record THEN record["metadata"] ELSE PyNone
    IN IF "success" \notin DOMAIN record THEN Raised("KeyError")
       ELSE IF record["success"] = PyBool(TRUE)
       THEN IF "data" \notin DOMAIN record THEN Raised("KeyError")
            ELSE Returned(Result_success(record["data"], metadata))
       ELSE IF ~({"error_code", "error_message"} \subseteq DOMAIN record) THEN Raised("KeyError")
            ELSE LET kind == ErrorCode_from_code(record["error_code"])
                 IN IF kind.kind = "raise" THEN kind
                    ELSE Returned(Result_error(kind.value, record["error_message"], metadata))

----------------------------------------------------------------------------
(* A caller of result.py: builds a Result with a factory and calls its methods *)

\* payloads handed to Result.success: empty, zero and None values among them
Payloads ==
    {PyNone, PyInt(0), PyInt(7), PyBool(FALSE), PyStr(<<>>), PyStr(<<"ok">>), EmptyDict,
     PhoneLocation(PyStr(<<"1", "3", "8">>), PyStr(<<"Beijing">>), PyStr(<<"Beijing">>),
                   "CHINA_MOBILE", TRUE)}

\* metadata arguments: omitted, empty, and with an item
MetadataArgs == {PyNone, EmptyDict, PyDict({<<"request_id", PyStr(<<"r1">>)>>})}

\* error_message arguments: omitted, empty, and a text
MessageArgs == {PyNone, PyStr(<<>>), PyStr(<<"custom message">>)}

NoCall == [fn |-> "none"]
NoObservation == [op |-> "none"]

CallSuccess(data, metadata) ==
    /\ result' = Result_success(data, metadata)
    /\ call' = [fn |-> "success", data |-> data, metadata |-> metadata]
    /\ observed' = NoObservation
    /\ UNCHANGED serviceVars
    /\ UNCHANGED <<enum_members, threads>>

CallError(name, error_message, metadata) ==
    /\ result' = Result_error(PyEnum(name), error_message, metadata)
    /\ call' = [fn |-> "error", error_code |-> PyEnum(name),
                error_message |-> error_message, metadata |-> metadata]
    /\ observed' = NoObservation
    /\ UNCHANGED serviceVars
    /\ UNCHANGED <<enum_members, threads>>

\* a caller builds a Result with the dataclass constructor itself
CallResult(success, data, error_code, error_message, metadata) ==
    /\ result' = Result(success, data, error_code, error_message, metadata)
    /\ call' = [fn |-> "Result", success |-> success, data |-> data, error_code |-> error_code,
                error_message |-> error_message, metadata |-> metadata]
    /\ observed' = NoObservation
    /\ UNCHANGED serviceVars
    /\ UNCHANGED <<enum_members, threads>>

CallIsRetryable ==
    /\ result # PyNone
    /\ observed' = [op |-> "is_retryable", ret |-> Returned(PyBool(Result_is_retryable(result)))]
    /\ UNCHANGED <<result, call>>
    /\ UNCHANGED serviceVars
    /\ UNCHANGED <<enum_members, threads>>

CallToDict ==
    /\ result # PyNone
    /\ observed' = [op |-> "to_dict", ret |-> Returned(Result_to_dict(result))]
    /\ UNCHANGED <<result, call>>
    /\ UNCHANGED serviceVars
    /\ UNCHANGED <<enum_members, threads>>

CallToHttpStatus ==
    /\ result # PyNone
    /\ observed' = [op |-> "to_http_status", ret |-> Returned(PyInt(Result_to_http_status(result)))]
    /\ UNCHANGED <<result, call>>
    /\ UNCHANGED serviceVars
    /\ UNCHANGED <<enum_members, threads>>

CallBool ==
    /\ result # PyNone
    /\ observed' = [op |-> "bool", ret |-> Returned(PyBool(Result_bool(result)))]
    /\ UNCHANGED <<result, call>>
    /\ UNCHANGED serviceVars
    /\ UNCHANGED <<enum_members, threads>>

\* the error kinds the docstring of query says it returns
DocumentedKinds ==
    {"MISSING_REQUIRED", "VALIDATION_FAILED", "INVALID_INPUT", "CREDENTIALS_INVALID",
     "PERMISSION_DENIED", "RATE_LIMITED", "TIMEOUT", "SERVICE_UNAVAILABLE",
     "SERVICE_DEGRADED"}

\* a caller evaluates ErrorCode.<name>
CallGetattr(name) ==
    /\ observed' = [op |-> "getattr", name |-> name, ret |-> ErrorCode_getattr(name)]
    /\ UNCHANGED <<result, call>>
    /\ UNCHANGED serviceVars
    /\ UNCHANGED <<enum_members, threads>>

\* the code arguments of from_code: the codes of the members, and strings
\* that are the code of none
CodeArgs ==
    {PyStr(<<ErrorCodeTable[n].code>>) : n \in DOMAIN ErrorCodeTable} \cup
    {PyStr(<<k>>) : k \in DocumentedKinds} \cup
    {PyStr(<<"NOT_A_REAL_CODE">>), PyStr(<<"timeout">>), PyStr(<<>>)}

\* a caller evaluates ErrorCode.from_code(code)
CallFromCode(code) ==
    /\ observed' = [op |-> "from_code", code |-> code, ret |-> ErrorCode_from_code(code)]
    /\ UNCHANGED <<result, call>>
    /\ UNCHANGED serviceVars
    /\ UNCHANGED <<enum_members, threads>>

\* a caller sends result.to_dict() to a peer, which rebuilds the Result
CallRoundTrip ==
    /\ result # PyNone
    /\ observed' = [op |-> "round_trip", ret |-> deserialize(Result_to_dict(result))]
    /\ UNCHANGED <<result, call>>
    /\ UNCHANGED serviceVars
    /\ UNCHANGED <<enum_members, threads>>

\* a caller calls the seven category functions of error_types.py
CallCategories ==
    /\ observed' = [op |-> "categories",
                    ret |-> [get_all_retryable_errors |-> get_all_retryable_errors,
                             get_all_non_retryable_errors |-> get_all_non_retryable_errors,
                             get_input_errors |-> get_input_errors,
                             get_auth_errors |-> get_auth_errors,
                             get_resource_errors |-> get_resource_errors,
                             get_timeout_errors |-> get_timeout_errors,
                             get_service_errors |-> get_service_errors]]
    /\ UNCHANGED <<result, call>>
    /\ UNCHANGED serviceVars
    /\ UNCHANGED <<enum_members, threads>>

ResultInit ==
    /\ result = PyNone
    /\ call = NoCall
    /\ observed = NoObservation


----------------------------------------------------------------------------
(* service.py: class PhoneLocationService *)

\* the characters phone numbers are made of: two ASCII digits, a letter, and
\* U+00B2 SUPERSCRIPT TWO, a digit for str.isdigit() that is not an ASCII digit
Chars == {"1", "3", "a", "SUPERSCRIPT_TWO"}

\* str.isdigit() of one character
IsDigitChar(c) == c \in {"1", "3", "SUPERSCRIPT_TWO"}

\* str.isdigit(): every character is a digit and there is at least one
str_isdigit(s) == Len(s) > 0 /\ \A i \in 1..Len(s) : IsDigitChar(s[i])

\* str.startswith(c) for a one-character prefix
str_startswith(s, c) == Len(s) >= 1 /\ s[1] = c

\* the length _validate_phone_format requires
PhoneLen == 11

\* PhoneLocationService._validate_phone_format(phone_number)
validate_phone_format(p) ==
    IF ~str_isdigit(p.s) THEN FALSE
    ELSE IF Len(p.s) # PhoneLen THEN FALSE
    ELSE IF ~str_startswith(p.s, "1") THEN FALSE
    ELSE TRUE

\* return Result.error(error_code=ErrorCode.<name>, error_message=...): the
\* attribute access is evaluated first and may raise
ReturnError(name, message) ==
    LET e == ErrorCode_getattr(name)
    IN IF e.kind = "raise" THEN e
       ELSE Returned(Result_error(e.value, message, PyNone))

\* the Provider call goes over a transport without a timeout of its own and
\* gets no response
NeverReturns == [kind |-> "hang"]

\* the outcomes of the Provider, self._call_remote_api(phone_number, timeout):
\* the record resolved; a failure the Provider classifies, raised as an
\* exception of that name; an unclassified failure; or no response at all
ProviderOutcomes(p) ==
    {Returned(PhoneLocation(p, PyStr(<<"Beijing">>), PyStr(<<"Beijing">>), "CHINA_MOBILE", TRUE))}
    \cup {Raised(e) : e \in {"AuthFailed", "PermissionDenied", "TimedOut", "Unavailable",
                              "Degraded", "RuntimeError", "ConnectionError"}}
    \cup {[kind |-> "raise", exc |-> "RateLimited", retry_after |-> r] :
              r \in {PyNone, PyInt(30)}}
    \cup {NeverReturns}

\* the body of query's try block, where the Provider is invoked: an exception
\* of the Provider leaves the body; what the Provider returns is not used (the
\* body has no statement but `pass`: the assignment and the return of
\* Result.success are commented out); while the Provider does not respond the
\* body does not end
RemoteCallBody(o) == IF o.kind \in {"raise", "hang"} THEN o ELSE Returned(PyNone)

\* the string of n characters first, fill, ..., fill, last
PhoneOf(first, fill, last, n) ==
    [i \in 1..n |-> IF i = 1 THEN first ELSE IF i = n THEN last ELSE fill]

\* the phone_number arguments: None and strings of 0..MaxLen characters
PhoneNumbers ==
    {PyNone} \cup
    {PyStr(PhoneOf(a, b, c, n)) : a \in Chars, b \in Chars, c \in Chars, n \in 0..MaxLen}

\* the timeout arguments of query: None and integers
TimeoutArgs == {PyNone} \cup {PyInt(n) : n \in (0 - MaxTimeout)..MaxTimeout}

\* the api_key arguments of the constructor
ApiKeys == {PyNone, PyStr(<<>>), PyStr(<<"your_key">>)}

\* a constructor that does not look at timeout
Construct_without_timeout_check(api_key, t) ==
    /\ pc = "idle"
    /\ IF ~Truthy(api_key)
       THEN /\ init_outcome' = Raised("ValueError")
            /\ UNCHANGED service
       ELSE /\ service' = [t |-> "PhoneLocationService", api_key |-> api_key, timeout |-> t]
            /\ init_outcome' = Returned(PyNone)
    /\ UNCHANGED <<pc, phone_number, timeout, actual_timeout, steps, remote, waited, outcome>>
    /\ UNCHANGED resultVars
    /\ UNCHANGED <<enum_members, threads>>

\* PhoneLocationService.__init__(api_key, timeout)
Construct(api_key, t) ==
    /\ pc = "idle"
    /\ IF ~Truthy(api_key) \/ t.i <= 0
       THEN /\ init_outcome' = Raised("ValueError")
            /\ UNCHANGED service
       ELSE /\ service' = [t |-> "PhoneLocationService", api_key |-> api_key, timeout |-> t]
            /\ init_outcome' = Returned(PyNone)
    /\ UNCHANGED <<pc, phone_number, timeout, actual_timeout, steps, remote, waited, outcome>>
    /\ UNCHANGED resultVars
    /\ UNCHANGED <<enum_members, threads>>

\* a caller enters query(phone_number, timeout)
Query(p, t) ==
    /\ pc = "idle"
    /\ service # PyNone
    /\ phone_number' = p
    /\ timeout' = t
    /\ actual_timeout' = PyNone
    /\ steps' = <<>>
    /\ remote' = NoOutcome
    /\ waited' = 0
    /\ outcome' = NoOutcome
    /\ pc' = "validate_presence"
    /\ UNCHANGED <<service, init_outcome>>
    /\ UNCHANGED resultVars
    /\ UNCHANGED <<enum_members, threads>>

\* if not phone_number: return Result.error(ErrorCode.MISSING_REQUIRED, ...)
ValidatePresence ==
    /\ pc = "validate_presence"
    /\ steps' = Append(steps, "presence")
    /\ IF ~Truthy(phone_number)
       THEN /\ outcome' = ReturnError("MISSING_REQUIRED", PyStr(<<"phone_number is empty">>))
            /\ pc' = "done"
       ELSE /\ pc' = "validate_timeout"
            /\ UNCHANGED outcome
    /\ UNCHANGED <<service, init_outcome, phone_number, timeout, actual_timeout, remote, waited>>
    /\ UNCHANGED resultVars
    /\ UNCHANGED <<enum_members, threads>>

\* actual_timeout = timeout if timeout is not None else self.timeout
\* if actual_timeout <= 0: return Result.error(ErrorCode.INVALID_INPUT, ...)
ValidateTimeout ==
    /\ pc = "validate_timeout"
    /\ steps' = Append(steps, "timeout")
    /\ actual_timeout' = IF timeout # PyNone THEN timeout ELSE service.timeout
    /\ IF actual_timeout'.i <= 0
       THEN /\ outcome' = ReturnError("INVALID_INPUT",
                              PyStr(<<"timeout must be > 0, got: ", ToString(actual_timeout'.i)>>))
            /\ pc' = "done"
       ELSE /\ pc' = "validate_format"
            /\ UNCHANGED outcome
    /\ UNCHANGED <<service, init_outcome, phone_number, timeout, remote, waited>>
    /\ UNCHANGED resultVars
    /\ UNCHANGED <<enum_members, threads>>

\* if not self._validate_phone_format(phone_number):
\*     return Result.error(ErrorCode.VALIDATION_FAILED, ...)
ValidateFormat ==
    /\ pc = "validate_format"
    /\ steps' = Append(steps, "format")
    /\ IF ~validate_phone_format(phone_number)
       THEN /\ outcome' = ReturnError("VALIDATION_FAILED",
                              PyStr(<<"bad phone number format: ">> \o phone_number.s))
            /\ pc' = "done"
       ELSE /\ pc' = "call_remote"
            /\ UNCHANGED outcome
    /\ UNCHANGED <<service, init_outcome, phone_number, timeout, actual_timeout, remote, waited>>
    /\ UNCHANGED resultVars
    /\ UNCHANGED <<enum_members, threads>>

\* the try block that lets an exception of the remote call leave query
CallRemote_propagates(o) ==
    /\ pc = "call_remote"
    /\ steps' = Append(steps, "remote")
    /\ remote' = o
    /\ IF RemoteCallBody(o).kind = "hang"
       THEN /\ pc' = "waiting"
            /\ UNCHANGED outcome
       ELSE /\ pc' = "done"
            /\ outcome' = RemoteCallBody(o)
    /\ UNCHANGED <<service, init_outcome, phone_number, timeout, actual_timeout, waited>>
    /\ UNCHANGED resultVars
    /\ UNCHANGED <<enum_members, threads>>

\* the try block of the remote call: an exception of its body gives
\* Result.error(ErrorCode.SERVICE_UNAVAILABLE, ...), and without one the
\* function ends without a return statement: the caller gets None; the block
\* sets no deadline of its own, so a body that does not end keeps query waiting
CallRemote(o) ==
    /\ pc = "call_remote"
    /\ steps' = Append(steps, "remote")
    /\ remote' = o
    /\ IF RemoteCallBody(o).kind = "hang"
       THEN /\ pc' = "waiting"
            /\ UNCHANGED outcome
       ELSE /\ pc' = "done"
            /\ outcome' = IF RemoteCallBody(o).kind = "raise"
                          THEN ReturnError("SERVICE_UNAVAILABLE",
                                           PyStr(<<"remote call failed: ", RemoteCallBody(o).exc>>))
                          ELSE Returned(PyNone)
    /\ UNCHANGED <<service, init_outcome, phone_number, timeout, actual_timeout, waited>>
    /\ UNCHANGED resultVars
    /\ UNCHANGED <<enum_members, threads>>

\* a second passes while query waits in the try block for the Provider
Wait ==
    /\ pc = "waiting"
    /\ waited < MaxWait
    /\ waited' = waited + 1
    /\ UNCHANGED <<service, init_outcome, pc, phone_number, timeout, actual_timeout, steps,
                   remote, outcome>>
    /\ UNCHANGED resultVars
    /\ UNCHANGED <<enum_members, threads>>

\* the caller has the outcome of the call; the service is ready for the next
Return ==
    /\ pc = "done"
    /\ pc' = "idle"
    /\ phone_number' = PyNone
    /\ timeout' = PyNone
    /\ actual_timeout' = PyNone
    /\ steps' = <<>>
    /\ remote' = NoOutcome
    /\ waited' = 0
    /\ outcome' = NoOutcome
    /\ UNCHANGED <<service, init_outcome>>
    /\ UNCHANGED resultVars
    /\ UNCHANGED <<enum_members, threads>>

\* query(phone_number, timeout) run from its first statement to its last on the
\* service `self`, the remote call doing `o`: how the call ends
query(self, p, t, o) ==
    IF ~Truthy(p)
    THEN ReturnError("MISSING_REQUIRED", PyStr(<<"phone_number is empty">>))
    ELSE LET at == IF t # PyNone THEN t ELSE self.timeout
         IN  IF at.i <= 0
             THEN ReturnError("INVALID_INPUT",
                              PyStr(<<"timeout must be > 0, got: ", ToString(at.i)>>))
             ELSE IF ~validate_phone_format(p)
             THEN ReturnError("VALIDATION_FAILED",
                              PyStr(<<"bad phone number format: ">> \o p.s))
             ELSE IF RemoteCallBody(o).kind = "hang" THEN NoOutcome
             ELSE IF RemoteCallBody(o).kind = "raise"
             THEN ReturnError("SERVICE_UNAVAILABLE",
                              PyStr(<<"remote call failed: ", RemoteCallBody(o).exc>>))
             ELSE Returned(PyNone)

\* the threads that call query on the one service instance
Threads == {"t1", "t2"}

\* the arguments the threads call query with
ThreadPhones ==
    {PyNone, PyStr(<<>>), PyStr(PhoneOf("1", "3", "3", PhoneLen)),
     PyStr(PhoneOf("a", "3", "3", PhoneLen))}
ThreadTimeouts == {PyNone, PyInt(MaxTimeout), PyInt(0 - MaxTimeout)}

\* a thread that is not inside query
IdleThread ==
    [pc |-> "idle", phone_number |-> PyNone, timeout |-> PyNone, actual_timeout |-> PyNone,
     remote |-> NoOutcome, outcome |-> NoOutcome, self |-> PyNone, overlapped |-> FALSE]

\* thread c enters query(p, t) on the service; its parameters and locals are
\* its own, `self` is the one service object (remembered as it is on entry)
ThreadQuery(c, p, t) ==
    /\ service # PyNone
    /\ threads[c].pc = "idle"
    /\ threads' = [d \in Threads |->
                      IF d = c
                      THEN [pc |-> "validate_presence", phone_number |-> p, timeout |-> t,
                            actual_timeout |-> PyNone, remote |-> NoOutcome,
                            outcome |-> NoOutcome, self |-> service,
                            overlapped |-> \E e \in Threads \ {c} : threads[e].pc # "idle"]
                      ELSE IF threads[d].pc # "idle"
                      THEN [threads[d] EXCEPT !.overlapped = TRUE]
                      ELSE threads[d]]
    /\ UNCHANGED serviceVars
    /\ UNCHANGED resultVars
    /\ UNCHANGED enum_members

\* thread c: if not phone_number: return Result.error(ErrorCode.MISSING_REQUIRED, ...)
ThreadValidatePresence(c) ==
    /\ threads[c].pc = "validate_presence"
    /\ threads' = [threads EXCEPT ![c] =
                      IF ~Truthy(@.phone_number)
                      THEN [@ EXCEPT !.pc = "done",
                                     !.outcome = ReturnError("MISSING_REQUIRED",
                                                     PyStr(<<"phone_number is empty">>))]
                      ELSE [@ EXCEPT !.pc = "validate_timeout"]]
    /\ UNCHANGED serviceVars
    /\ UNCHANGED resultVars
    /\ UNCHANGED enum_members

\* thread c running a query that keeps the effective timeout on the service:
\* self.timeout = actual_timeout
ThreadValidateTimeout_stores_on_self(c) ==
    /\ threads[c].pc = "validate_timeout"
    /\ LET at == IF threads[c].timeout # PyNone THEN threads[c].timeout ELSE service.timeout
       IN  /\ threads' = [threads EXCEPT ![c] =
                      IF at.i <= 0
                      THEN [@ EXCEPT !.pc = "done", !.actual_timeout = at,
                                     !.outcome = ReturnError("INVALID_INPUT",
                                         PyStr(<<"timeout must be > 0, got: ", ToString(at.i)>>))]
                      ELSE [@ EXCEPT !.pc = "validate_format", !.actual_timeout = at]]
           /\ service' = [service EXCEPT !.timeout = at]
    /\ UNCHANGED <<init_outcome, pc, phone_number, timeout, actual_timeout, steps, remote, waited,
                   outcome>>
    /\ UNCHANGED resultVars
    /\ UNCHANGED enum_members

\* thread c: actual_timeout = timeout if timeout is not None else self.timeout
\* if actual_timeout <= 0: return Result.error(ErrorCode.INVALID_INPUT, ...)
ThreadValidateTimeout(c) ==
    /\ threads[c].pc = "validate_timeout"
    /\ LET at == IF threads[c].timeout # PyNone THEN threads[c].timeout ELSE service.timeout
       IN  /\ threads' = [threads EXCEPT ![c] =
                      IF at.i <= 0
                      THEN [@ EXCEPT !.pc = "done", !.actual_timeout = at,
                                     !.outcome = ReturnError("INVALID_INPUT",
                                         PyStr(<<"timeout must be > 0, got: ", ToString(at.i)>>))]
                      ELSE [@ EXCEPT !.pc = "validate_format", !.actual_timeout = at]]
           /\ UNCHANGED service
    /\ UNCHANGED <<init_outcome, pc, phone_number, timeout, actual_timeout, steps, remote, waited,
                   outcome>>
    /\ UNCHANGED resultVars
    /\ UNCHANGED enum_members

\* thread c: if not self._validate_phone_format(phone_number):
\*     return Result.error(ErrorCode.VALIDATION_FAILED, ...)
ThreadValidateFormat(c) ==
    /\ threads[c].pc = "validate_format"
    /\ threads' = [threads EXCEPT ![c] =
                      IF ~validate_phone_format(@.phone_number)
                      THEN [@ EXCEPT !.pc = "done",
                                     !.outcome = ReturnError("VALIDATION_FAILED",
                                         PyStr(<<"bad phone number format: ">>
                                               \o @.phone_number.s))]
                      ELSE [@ EXCEPT !.pc = "call_remote"]]
    /\ UNCHANGED serviceVars
    /\ UNCHANGED resultVars
    /\ UNCHANGED enum_members

\* thread c: the try block of the remote call
ThreadCallRemote(c, o) ==
    /\ threads[c].pc = "call_remote"
    /\ threads' = [threads EXCEPT ![c] =
                      IF RemoteCallBody(o).kind = "hang"
                      THEN [@ EXCEPT !.pc = "waiting", !.remote = o]
                      ELSE [@ EXCEPT !.pc = "done", !.remote = o,
                                     !.outcome =
                                         IF RemoteCallBody(o).kind = "raise"
                                         THEN ReturnError("SERVICE_UNAVAILABLE",
                                                  PyStr(<<"remote call failed: ",
                                                          RemoteCallBody(o).exc>>))
                                         ELSE Returned(PyNone)]]
    /\ UNCHANGED serviceVars
    /\ UNCHANGED resultVars
    /\ UNCHANGED enum_members

\* thread c has the outcome of its call
ThreadReturn(c) ==
    /\ threads[c].pc = "done"
    /\ threads' = [threads EXCEPT ![c] = IdleThread]
    /\ UNCHANGED serviceVars
    /\ UNCHANGED resultVars
    /\ UNCHANGED enum_members

ThreadsInit == threads = [c \in Threads |-> IdleThread]

ServiceInit ==
    /\ service = PyNone
    /\ init_outcome = NoOutcome
    /\ pc = "idle"
    /\ phone_number = PyNone
    /\ timeout = PyNone
    /\ actual_timeout = PyNone
    /\ steps = <<>>
    /\ remote = NoOutcome
    /\ waited = 0
    /\ outcome = NoOutcome

----------------------------------------------------------------------------
(* v1/exceptions.py: the exception hierarchy *)

\* the class statements: the base of each class, the value its own
\* is_retryable returns (None: the class body defines no is_retryable) and
\* whether its body defines an __init__ with the parameter retry_after
ExceptionClassTable ==
    [PhoneAPIException |->
         [base |-> "Exception", is_retryable |-> PyBool(FALSE), own_init |-> FALSE],
     ClientError |->
         [base |-> "PhoneAPIException", is_retryable |-> PyNone, own_init |-> FALSE],
     InvalidPhoneNumberError |->
         [base |-> "ClientError", is_retryable |-> PyNone, own_init |-> FALSE],
     InvalidParameterError |->
         [base |-> "ClientError", is_retryable |-> PyNone, own_init |-> FALSE],
     AuthenticationError |->
         [base |-> "ClientError", is_retryable |-> PyNone, own_init |-> FALSE],
     RetryableError |->
         [base |-> "PhoneAPIException", is_retryable |-> PyBool(TRUE), own_init |-> FALSE],
     RateLimitExceededError |->
         [base |-> "RetryableError", is_retryable |-> PyNone, own_init |-> TRUE],
     TimeoutError |->
         [base |-> "RetryableError", is_retryable |-> PyNone, own_init |-> FALSE],
     ServiceUnavailableError |->
         [base |-> "RetryableError", is_retryable |-> PyNone, own_init |-> TRUE]]

ExceptionClasses == DOMAIN ExceptionClassTable

\* the classes from cls up to PhoneAPIException, cls first
RECURSIVE ExceptionMro(_)
ExceptionMro(cls) ==
    IF cls \notin ExceptionClasses THEN <<>>
    ELSE <<cls>> \o ExceptionMro(ExceptionClassTable[cls].base)

\* is_retryable() found on the root class whatever the class of the exception
Exception_is_retryable_of_root(cls) ==
    ExceptionClassTable["PhoneAPIException"].is_retryable.b

\* e.is_retryable() for an exception e of class cls: the method of the first
\* class of the resolution order that defines one
Exception_is_retryable(cls) ==
    LET mro == ExceptionMro(cls)
        first == CHOOSE i \in 1..Len(mro) :
                     /\ ExceptionClassTable[mro[i]].is_retryable # PyNone
                     /\ \A j \in 1..(i - 1) : ExceptionClassTable[mro[j]].is_retryable = PyNone
    IN  ExceptionClassTable[mro[first]].is_retryable.b

\* a keyword argument the caller did not pass
Omitted == [t |-> "omitted"]

\* cls(message, retry_after=..., error_code=...): RateLimitExceededError and
\* ServiceUnavailableError take retry_after (default None) and keep it; the
\* other classes run PhoneAPIException.__init__(message, error_code), which
\* has no such parameter
Exception_new(cls, message, retry_after, error_code) ==
    LET code == IF error_code = Omitted THEN PyNone ELSE error_code
    IN  IF ExceptionClassTable[cls].own_init
        THEN Returned([t |-> "exception", cls |-> cls, message |-> message, error_code |-> code,
                       retry_after |-> IF retry_after = Omitted THEN PyNone ELSE retry_after])
        ELSE IF retry_after # Omitted THEN Raised("TypeError")
        ELSE Returned([t |-> "exception", cls |-> cls, message |-> message,
                       error_code |-> code])

\* e.retry_after
Exception_retry_after(e) ==
    IF "retry_after" \in DOMAIN e THEN Returned(e.retry_after) ELSE Raised("AttributeError")

ExceptionMessages ==
    {PyStr(<<"bad phone number format">>), PyStr(<<"too many requests">>),
     PyStr(<<"first attempt timed out">>)}
RetryAfterArgs == {Omitted, PyNone, PyInt(1)}
ExceptionCodeArgs == {Omitted, PyStr(<<"E429">>)}

\* raise cls(message, retry_after=ra, error_code=ec)
RaiseException(cls, message, ra, ec) ==
    /\ observed' = [op |-> "raise", cls |-> cls, message |-> message, retry_after |-> ra,
                    error_code |-> ec, ret |-> Exception_new(cls, message, ra, ec)]
    /\ UNCHANGED <<result, call>>
    /\ UNCHANGED serviceVars
    /\ UNCHANGED <<enum_members, threads>>

\* except PhoneAPIException as e: e.is_retryable(), e.retry_after
CatchException ==
    /\ observed.op = "raise"
    /\ observed.ret.kind = "return"
    /\ observed' = [op |-> "except", cls |-> observed.cls, retry_after_arg |-> observed.retry_after,
                    e |-> observed.ret.value,
                    is_retryable |-> Returned(PyBool(Exception_is_retryable(observed.cls))),
                    retry_after |-> Exception_retry_after(observed.ret.value)]
    /\ UNCHANGED <<result, call>>
    /\ UNCHANGED serviceVars
    /\ UNCHANGED <<enum_members, threads>>

----------------------------------------------------------------------------
(* Specifications *)

Init == EnumInit /\ ServiceInit /\ ResultInit /\ ThreadsInit

\* the service: construction and query calls
Next ==
    \/ \E k \in ApiKeys, n \in (0 - MaxTimeout)..MaxTimeout : Construct(k, PyInt(n))
    \/ \E p \in PhoneNumbers, t \in TimeoutArgs : Query(p, t)
    \/ ValidatePresence
    \/ ValidateTimeout
    \/ ValidateFormat
    \/ \E o \in ProviderOutcomes(phone_number) : CallRemote(o)
    \/ Wait
    \/ Return

Spec == Init /\ [][Next]_vars

\* a caller of result.py
ResultNext ==
    \/ \E d \in Payloads, m \in MetadataArgs : CallSuccess(d, m)
    \/ \E e \in ErrorCode, msg \in MessageArgs, m \in MetadataArgs : CallError(e, msg, m)
    \/ \E ok \in BOOLEAN, d \in {PyNone, PyInt(7)},
          e \in {PyNone, PyEnum("TIMEOUT"), PyEnum("INVALID_PARAMETER")},
          msg \in {PyNone, PyStr(<<"custom message">>)},
          m \in MetadataArgs \ {PyNone} : CallResult(ok, d, e, msg, m)
    \/ CallIsRetryable
    \/ CallToDict
    \/ CallToHttpStatus
    \/ CallBool
    \/ \E name \in ErrorCode \cup DocumentedKinds : CallGetattr(name)
    \/ \E code \in CodeArgs : CallFromCode(code)
    \/ CallRoundTrip
    \/ CallCategories

ResultSpec == Init /\ [][ResultNext]_vars

\* a caller of v1/exceptions.py
ExceptionsNext ==
    \/ \E cls \in ExceptionClasses, m \in ExceptionMessages, ra \in RetryAfterArgs,
          ec \in ExceptionCodeArgs : RaiseException(cls, m, ra, ec)
    \/ CatchException

ExceptionsSpec == Init /\ [][ExceptionsNext]_vars

\* threads calling query concurrently on one service instance, once constructed
ThreadsNext ==
    \/ /\ service = PyNone
       /\ \E k \in ApiKeys, n \in (0 - MaxTimeout)..MaxTimeout : Construct(k, PyInt(n))
    \/ \E c \in Threads, p \in ThreadPhones, t \in ThreadTimeouts : ThreadQuery(c, p, t)
    \/ \E c \in Threads : ThreadValidatePresence(c)
    \/ \E c \in Threads : ThreadValidateTimeout(c)
    \/ \E c \in Threads : ThreadValidateFormat(c)
    \/ \E c \in Threads : \E o \in ProviderOutcomes(threads[c].phone_number) :
          ThreadCallRemote(c, o)
    \/ \E c \in Threads : ThreadReturn(c)

ThreadsSpec == Init /\ [][ThreadsNext]_vars


----------------------------------------------------------------------------
(* What the claims speak of *)

\* the ten ASCII digits
AsciiDigits == {"0", "1", "2", "3", "4", "5", "6", "7", "8", "9"}

\* the format rule: exactly 11 ASCII digits, the first of them '1'
WellFormed(p) ==
    /\ p.t = "str"
    /\ Len(p.s) = 11
    /\ \A i \in 1..Len(p.s) : p.s[i] \in AsciiDigits
    /\ p.s[1] = "1"

\* the call ended by returning a Result
ReturnedResult(o) == o.kind = "return" /\ o.value.t = "Result"

\* the call ended by returning a failure Result of the error kind `name`
ReturnedFailure(o, name) ==
    /\ ReturnedResult(o)
    /\ o.value.success = FALSE
    /\ o.value.error_code = PyEnum(name)

\* the call in progress has entered the try block of the remote call
ReachedRemote == \E i \in 1..Len(steps) : steps[i] = "remote"

\* a field of a Result is set
IsSet(v) == v # PyNone

----------------------------------------------------------------------------
(* Claims *)

\* C1: every query call, whatever its phone_number and timeout, ends by
\* returning a Result object and raises no exception.
C1_QueryAlwaysReturnsResult ==
    pc = "done" => ReturnedResult(outcome)

\* C2: a Result built by Result.success or Result.error is populated on exactly
\* one side: success is True iff error_code and error_message are both unset,
\* success is False iff data is unset and error_code and error_message are both
\* set, and never are data and an error field both set.
C2_MutualExclusivity ==
    call.fn \in {"success", "error"} =>
        /\ result.success = TRUE <=>
              (~IsSet(result.error_code) /\ ~IsSet(result.error_message))
        /\ result.success = FALSE <=>
              (~IsSet(result.data) /\ IsSet(result.error_code) /\ IsSet(result.error_message))
        /\ ~(IsSet(result.data) /\ (IsSet(result.error_code) \/ IsSet(result.error_message)))

\* C2 witness: Result.error was called without a message and built a failure.
C2_Witness ==
    /\ call.fn = "error"
    /\ call.error_message = PyNone
    /\ result.success = FALSE
    /\ IsSet(result.error_message)

\* C3: query with an empty or absent phone_number returns a failure Result of
\* kind MISSING_REQUIRED, and the remote call is not reached in that call.
C3_EmptyGivesMissingRequired ==
    (pc = "done" /\ (phone_number = PyNone \/ phone_number = PyStr(<<>>))) =>
        /\ ReturnedFailure(outcome, "MISSING_REQUIRED")
        /\ ~ReachedRemote

\* C4: for a non-empty phone_number and a positive effective timeout, query
\* returns failure(VALIDATION_FAILED) iff the phone_number is not 11 ASCII
\* digits beginning with '1', and the format check lets exactly the well-formed
\* phone numbers pass on to the remote call.
C4_FormatRule ==
    (pc = "done" /\ Truthy(phone_number) /\ actual_timeout # PyNone /\ actual_timeout.i > 0) =>
        /\ ReturnedFailure(outcome, "VALIDATION_FAILED") <=> ~WellFormed(phone_number)
        /\ ReachedRemote <=> WellFormed(phone_number)

\* C5: for a non-empty phone_number and a supplied timeout <= 0, query returns
\* a failure Result of kind INVALID_INPUT.
C5_NonPositiveTimeoutGivesInvalidInput ==
    (pc = "done" /\ Truthy(phone_number) /\ timeout # PyNone /\ timeout.i <= 0) =>
        ReturnedFailure(outcome, "INVALID_INPUT")

\* C6: the remote call is reached only after all validation has passed: with a
\* phone_number that satisfies the format rule and a positive effective timeout
\* (the supplied timeout, else the service default); and a call that ends in
\* MISSING_REQUIRED, INVALID_INPUT or VALIDATION_FAILED has not reached it.
C6_RemoteOnlyAfterValidation ==
    /\ (pc = "call_remote" \/ ReachedRemote) =>
          /\ WellFormed(phone_number)
          /\ actual_timeout = (IF timeout # PyNone THEN timeout ELSE service.timeout)
          /\ actual_timeout.i > 0
    /\ (pc = "done" /\ \E k \in {"MISSING_REQUIRED", "INVALID_INPUT", "VALIDATION_FAILED"} :
                           ReturnedFailure(outcome, k)) => ~ReachedRemote

\* C7: for a well-formed phone_number and a positive effective timeout, a call
\* in which the Provider reports success returns a Result with success True
\* whose data is the PhoneLocation of the queried phone_number.
C7_SuccessReturnsRecord ==
    (pc = "done" /\ WellFormed(phone_number) /\ actual_timeout # PyNone
                 /\ actual_timeout.i > 0 /\ remote.kind = "return") =>
        /\ ReturnedResult(outcome)
        /\ outcome.value.success = TRUE
        /\ outcome.value.data.t = "PhoneLocation"
        /\ outcome.value.data.phone_number = phone_number

\* C8: is_retryable() never raises; on Result.error(k) it equals the retryable
\* flag of k, and on Result.success(x) it is False for every payload x.
C8_RetryabilityConsistency ==
    observed.op = "is_retryable" =>
        /\ observed.ret.kind = "return"
        /\ call.fn = "error" =>
              observed.ret.value = PyBool(ErrorCodeTable[call.error_code.name].retryable)
        /\ call.fn = "success" => observed.ret.value = PyBool(FALSE)

\* C8 witness: is_retryable() was called on a failure of a retryable kind and
\* gave True.
C8_Witness ==
    /\ observed.op = "is_retryable"
    /\ call.fn = "error"
    /\ call.error_code = PyEnum("TIMEOUT")
    /\ observed.ret = Returned(PyBool(TRUE))

\* C9: every error kind query is specified to return is a member of ErrorCode
\* with the stated retry flag: MISSING_REQUIRED, INVALID_INPUT,
\* VALIDATION_FAILED, CREDENTIALS_INVALID and PERMISSION_DENIED with retryable
\* False; RATE_LIMITED, TIMEOUT, SERVICE_UNAVAILABLE and SERVICE_DEGRADED with
\* retryable True.
C9_SpecifiedKindsAreMembers ==
    observed.op = "getattr" =>
        /\ observed.name \in {"MISSING_REQUIRED", "INVALID_INPUT", "VALIDATION_FAILED",
                               "CREDENTIALS_INVALID", "PERMISSION_DENIED"} =>
              /\ observed.ret.kind = "return"
              /\ ErrorCode_retryable(observed.ret.value) = FALSE
        /\ observed.name \in {"RATE_LIMITED", "TIMEOUT", "SERVICE_UNAVAILABLE",
                               "SERVICE_DEGRADED"} =>
              /\ observed.ret.kind = "return"
              /\ ErrorCode_retryable(observed.ret.value) = TRUE

\* C10: for a Result built by Result.success with an empty, zero or None
\* payload, bool() is True, is_retryable() is False, to_http_status() is 200
\* and to_dict() has success True and a data key.
C10_SuccessFlagIsTheDiscriminant ==
    (call.fn = "success" /\ ~Truthy(call.data)) =>
        /\ observed.op = "bool" => observed.ret = Returned(PyBool(TRUE))
        /\ observed.op = "is_retryable" => observed.ret = Returned(PyBool(FALSE))
        /\ observed.op = "to_http_status" => observed.ret = Returned(PyInt(200))
        /\ observed.op = "to_dict" =>
              /\ "success" \in DOMAIN observed.ret.value
              /\ observed.ret.value["success"] = PyBool(TRUE)
              /\ "data" \in DOMAIN observed.ret.value
              /\ observed.ret.value["data"] = call.data

\* C10 witness: bool() was called on Result.success(None).
C10_Witness ==
    /\ call.fn = "success"
    /\ call.data = PyNone
    /\ observed.op = "bool"

\* C11: Result.error(kind, message, metadata) always builds a failure Result;
\* with the message omitted its error_message is the description of the kind,
\* and a supplied message, the empty string included, is kept unchanged.
C11_ErrorMessageDefault ==
    call.fn = "error" =>
        /\ result.t = "Result"
        /\ result.success = FALSE
        /\ result.error_code = call.error_code
        /\ call.error_message = PyNone =>
              result.error_message = PyStr(<<ErrorCodeTable[call.error_code.name].desc>>)
        /\ call.error_message # PyNone => result.error_message = call.error_message

\* C11 witness: Result.error was called with the empty string as message and
\* kept it.
C11_Witness ==
    /\ call.fn = "error"
    /\ call.error_message = PyStr(<<>>)
    /\ result.error_message = PyStr(<<>>)

\* what to_dict gave, when it was the last method called
ToDictGave == observed.ret.value

\* C12 as stated: for every failure Result, to_dict() has success False, always
\* has the keys error_code (the code of the kind), error_message and retryable
\* (equal to is_retryable()), has no data key, and has metadata only when
\* metadata was supplied.
C12_FailureRecord ==
    (observed.op = "to_dict" /\ result.success = FALSE) =>
        /\ ToDictGave["success"] = PyBool(FALSE)
        /\ {"error_code", "error_message", "retryable"} \subseteq DOMAIN ToDictGave
        /\ ToDictGave["error_code"] = PyStr(<<ErrorCodeTable[result.error_code.name].code>>)
        /\ ToDictGave["error_message"] = result.error_message
        /\ ToDictGave["retryable"] = PyBool(ErrorCodeTable[result.error_code.name].retryable)
        /\ "data" \notin DOMAIN ToDictGave
        /\ "metadata" \in DOMAIN ToDictGave =>
              (call.metadata # PyNone /\ ToDictGave["metadata"] = call.metadata)

\* C12 amended: the same for every failure Result that carries an error kind,
\* as every Result built by Result.error does.
C12_FailureRecordWithKind ==
    (observed.op = "to_dict" /\ result.success = FALSE /\ result.error_code # PyNone) =>
        /\ ToDictGave["success"] = PyBool(FALSE)
        /\ {"error_code", "error_message", "retryable"} \subseteq DOMAIN ToDictGave
        /\ ToDictGave["error_code"] = PyStr(<<ErrorCodeTable[result.error_code.name].code>>)
        /\ ToDictGave["error_message"] = result.error_message
        /\ ToDictGave["retryable"] = PyBool(ErrorCodeTable[result.error_code.name].retryable)
        /\ "data" \notin DOMAIN ToDictGave
        /\ "metadata" \in DOMAIN ToDictGave =>
              (call.metadata # PyNone /\ ToDictGave["metadata"] = call.metadata)

\* C12 witness: to_dict() was called on a Result.error(...) built without
\* metadata, and gave the three error keys and no metadata.
C12_Witness ==
    /\ observed.op = "to_dict"
    /\ call.fn = "error"
    /\ call.metadata = PyNone
    /\ DOMAIN ToDictGave = {"success", "error_code", "error_message", "retryable"}

\* C13 as stated: for every success Result, to_dict() consists of exactly
\* success True and data, the payload, and has no other key.
C13_SuccessRecord ==
    (observed.op = "to_dict" /\ result.success = TRUE) =>
        /\ DOMAIN ToDictGave = {"success", "data"}
        /\ ToDictGave["success"] = PyBool(TRUE)
        /\ ToDictGave["data"] = call.data

\* C13 amended: for every success Result, to_dict() consists of success True,
\* data (the payload) and, exactly when the metadata given is not empty, the
\* key metadata with it; it has none of error_code, error_message, retryable
\* and no other key.
C13_SuccessRecordWithMetadata ==
    (observed.op = "to_dict" /\ result.success = TRUE) =>
        /\ DOMAIN ToDictGave =
              {"success", "data"} \cup (IF Truthy(call.metadata) THEN {"metadata"} ELSE {})
        /\ ToDictGave["success"] = PyBool(TRUE)
        /\ ToDictGave["data"] = call.data
        /\ Truthy(call.metadata) => ToDictGave["metadata"] = call.metadata

\* C13 witness: to_dict() was called on Result.success(None, metadata) with a
\* request_id in the metadata.
C13_Witness ==
    /\ observed.op = "to_dict"
    /\ call.fn = "success"
    /\ call.data = PyNone
    /\ Truthy(call.metadata)
    /\ "metadata" \in DOMAIN ToDictGave

\* C14: for a Result r built by the factories, the Result rebuilt from
\* r.to_dict(), error_code resolved by ErrorCode.from_code, has the same success
\* flag, and the same data on success, or the same error kind, error_message
\* and metadata on failure.
C14_RoundTrip ==
    (observed.op = "round_trip" /\ call.fn \in {"success", "error"}) =>
        /\ observed.ret.kind = "return"
        /\ observed.ret.value.success = result.success
        /\ result.success = TRUE => observed.ret.value.data = call.data
        /\ result.success = FALSE =>
              /\ observed.ret.value.error_code = call.error_code
              /\ observed.ret.value.error_message = result.error_message
              /\ observed.ret.value.metadata = result.metadata

\* C14 witness: a failure built by Result.error with metadata made the round
\* trip and came back a failure with that metadata.
C14_Witness ==
    /\ observed.op = "round_trip"
    /\ call.fn = "error"
    /\ Truthy(call.metadata)
    /\ observed.ret.kind = "return"
    /\ observed.ret.value.metadata = call.metadata

\* C15: from_code(k.code) is k for every member k, and for a string that is the
\* code of no member from_code fails with an error and returns no member.
C15_FromCodeExact ==
    observed.op = "from_code" =>
        /\ \A n \in DOMAIN ErrorCodeTable :
              observed.code = PyStr(<<ErrorCodeTable[n].code>>) =>
                  observed.ret = Returned(PyEnum(n))
        /\ (\A n \in DOMAIN ErrorCodeTable : observed.code # PyStr(<<ErrorCodeTable[n].code>>)) =>
              observed.ret.kind = "raise"

\* C15 witness: from_code("NOT_A_REAL_CODE") raised ValueError.
C15_Witness ==
    /\ observed.op = "from_code"
    /\ observed.code = PyStr(<<"NOT_A_REAL_CODE">>)
    /\ observed.ret = Raised("ValueError")

\* no two distinct members have the same code
CodesUnique ==
    \A a \in DOMAIN enum_members, b \in DOMAIN enum_members :
        enum_members[a].code = enum_members[b].code => a = b

\* C16: no two distinct members of ErrorCode have the same code, and no
\* operation changes the members or their code, desc and retryable.
C16_CodesUniqueAndFixed ==
    /\ [](CodesUnique)
    /\ [][enum_members' = enum_members]_vars

\* C16 witness: after a Result was built and from_code was called, the
\* enumeration is the one the class body defines.
C16_Witness ==
    /\ result # PyNone
    /\ observed.op = "from_code"
    /\ enum_members = ErrorCodeTable

\* the set of the names of the members in a list
NamesOf(list) == {list[i].name : i \in 1..Len(list)}

\* C17: the members of the input and authorization categories are not
\* retryable, those of the resource, timeout and service categories are; the
\* five category lists together hold every member exactly once; and
\* get_all_retryable_errors and get_all_non_retryable_errors split the
\* enumeration along these categories.
C17_RetryabilityByCategory ==
    observed.op = "categories" =>
        LET c == observed.ret
            five == c.get_input_errors \o c.get_auth_errors \o c.get_resource_errors
                    \o c.get_timeout_errors \o c.get_service_errors
        IN /\ \A n \in NamesOf(c.get_input_errors) \cup NamesOf(c.get_auth_errors) :
                 ErrorCodeTable[n].retryable = FALSE
           /\ \A n \in NamesOf(c.get_resource_errors) \cup NamesOf(c.get_timeout_errors)
                       \cup NamesOf(c.get_service_errors) :
                 ErrorCodeTable[n].retryable = TRUE
           /\ NamesOf(five) = DOMAIN ErrorCodeTable
           /\ Len(five) = Cardinality(DOMAIN ErrorCodeTable)
           /\ NamesOf(c.get_all_retryable_errors) =
                 NamesOf(c.get_resource_errors) \cup NamesOf(c.get_timeout_errors)
                 \cup NamesOf(c.get_service_errors)
           /\ NamesOf(c.get_all_non_retryable_errors) =
                 NamesOf(c.get_input_errors) \cup NamesOf(c.get_auth_errors)
           /\ Len(c.get_all_retryable_errors) + Len(c.get_all_non_retryable_errors)
                 = Cardinality(DOMAIN ErrorCodeTable)

\* C17 witness: the category functions were called and gave five retryable
\* and five non-retryable members.
C17_Witness ==
    /\ observed.op = "categories"
    /\ Len(observed.ret.get_all_retryable_errors) = 5
    /\ Len(observed.ret.get_all_non_retryable_errors) = 5

\* the failures the Provider does not classify
Unclassified == {"RuntimeError", "ConnectionError"}

\* C18: an unexpected or unclassified failure raised by the Provider call is
\* caught: query returns a failure Result of the retryable kind
\* SERVICE_UNAVAILABLE and the exception does not reach the caller.
C18_UnexpectedFailureIsServiceUnavailable ==
    (pc = "done" /\ remote.kind = "raise" /\ remote.exc \in Unclassified) =>
        /\ outcome.kind # "raise"
        /\ ReturnedFailure(outcome, "SERVICE_UNAVAILABLE")
        /\ ErrorCodeTable["SERVICE_UNAVAILABLE"].retryable = TRUE

\* C18 witness: the Provider raised RuntimeError and query returned
\* failure(SERVICE_UNAVAILABLE).
C18_Witness ==
    /\ pc = "done"
    /\ remote = Raised("RuntimeError")
    /\ ReturnedFailure(outcome, "SERVICE_UNAVAILABLE")

\* the metadata of the Result returned has an item retryAfterSeconds
HasRetryAfter(o) == \E item \in o.value.metadata.d : item[1] = "retryAfterSeconds"

\* C19: query gives each classified Provider outcome its error kind:
\* AuthFailed CREDENTIALS_INVALID, PermissionDenied PERMISSION_DENIED,
\* RateLimited RATE_LIMITED (with metadata.retryAfterSeconds when the Provider
\* supplied a value), TimedOut TIMEOUT, Unavailable SERVICE_UNAVAILABLE and
\* Degraded SERVICE_DEGRADED.
C19_ClassifiedOutcomes ==
    (pc = "done" /\ remote.kind = "raise") =>
        /\ remote.exc = "AuthFailed" => ReturnedFailure(outcome, "CREDENTIALS_INVALID")
        /\ remote.exc = "PermissionDenied" => ReturnedFailure(outcome, "PERMISSION_DENIED")
        /\ remote.exc = "RateLimited" =>
              /\ ReturnedFailure(outcome, "RATE_LIMITED")
              /\ remote.retry_after # PyNone => HasRetryAfter(outcome)
        /\ remote.exc = "TimedOut" => ReturnedFailure(outcome, "TIMEOUT")
        /\ remote.exc = "Unavailable" => ReturnedFailure(outcome, "SERVICE_UNAVAILABLE")
        /\ remote.exc = "Degraded" => ReturnedFailure(outcome, "SERVICE_DEGRADED")

\* the number of Provider invocations of the call in progress
RemoteCount == Cardinality({i \in 1..Len(steps) : steps[i] = "remote"})

\* C20: the service never retries: a query call invokes the Provider at most
\* once and, once ended, has returned exactly one Result, also when that
\* Result is a retryable failure.
C20_NeverRetries ==
    /\ RemoteCount <= 1
    /\ ReachedRemote => pc = "done"
    /\ pc = "done" => ReturnedResult(outcome)
    /\ (pc = "done" /\ ReturnedResult(outcome) /\ Result_is_retryable(outcome.value)) =>
          RemoteCount = 1

\* C21: when the Provider does not respond within the effective timeout, query
\* still ends, returning a failure Result of kind TIMEOUT: it is not waiting
\* any more once the effective timeout is exceeded, and it does not return
\* before the effective timeout has elapsed.
C21_TimeoutSynthesis ==
    /\ pc = "waiting" => waited <= actual_timeout.i
    /\ (pc = "done" /\ remote = NeverReturns) =>
          /\ ReturnedFailure(outcome, "TIMEOUT")
          /\ waited >= actual_timeout.i

\* C22: query holds no mutable shared state: no step of a query call changes
\* the service's api_key or default timeout, and in every interleaving of the
\* threads' calls each call ends as the same call run alone on the service
\* would, which is a function of its arguments and of what the Provider did.
C22_NoSharedMutableState ==
    /\ [](\A c \in Threads :
             threads[c].pc = "done" =>
                 threads[c].outcome = query(threads[c].self, threads[c].phone_number,
                                            threads[c].timeout, threads[c].remote))
    /\ [][service # PyNone => service' = service]_vars

\* C22 witness: two calls that overlapped have both ended, differently.
C22_Witness ==
    /\ \A c \in Threads : threads[c].pc = "done" /\ threads[c].overlapped
    /\ threads["t1"].outcome # threads["t2"].outcome
    /\ threads["t1"].timeout = PyNone
    /\ threads["t2"].timeout # PyNone

\* C23: constructing the service fails with an error when api_key is empty and
\* when the default timeout is <= 0, and the failed construction leaves no
\* service; so every constructed service has a non-empty api_key and a
\* positive default timeout.
C23_ConstructionValidates ==
    /\ [](service # PyNone =>
             /\ service.api_key.t = "str"
             /\ Len(service.api_key.s) > 0
             /\ service.timeout.i > 0)
    /\ [][\A k \in ApiKeys, n \in (0 - MaxTimeout)..MaxTimeout :
             (Construct(k, PyInt(n)) /\ (~Truthy(k) \/ n <= 0)) =>
                 (init_outcome' = Raised("ValueError") /\ service' = service)]_vars

\* C23 witness: a construction has succeeded and a later one, with a bad
\* argument, has failed with ValueError.
C23_Witness ==
    /\ service # PyNone
    /\ init_outcome = Raised("ValueError")

\* C24: in the v1 exception hierarchy is_retryable() returns False for
\* PhoneAPIException, ClientError, InvalidPhoneNumberError, InvalidParameterError
\* and AuthenticationError and True for RetryableError, RateLimitExceededError,
\* TimeoutError and ServiceUnavailableError, and a RateLimitExceededError has
\* the retry_after it was constructed with (None when none was given).
C24_RetryabilityFollowsClass ==
    observed.op = "except" =>
        /\ observed.cls \in {"PhoneAPIException", "ClientError", "InvalidPhoneNumberError",
                             "InvalidParameterError", "AuthenticationError"}
              => observed.is_retryable = Returned(PyBool(FALSE))
        /\ observed.cls \in {"RetryableError", "RateLimitExceededError", "TimeoutError",
                             "ServiceUnavailableError"}
              => observed.is_retryable = Returned(PyBool(TRUE))
        /\ observed.cls = "RateLimitExceededError" =>
              observed.retry_after =
                  Returned(IF observed.retry_after_arg = Omitted THEN PyNone
                           ELSE observed.retry_after_arg)

\* C24 witness: a RateLimitExceededError built with retry_after=1 was caught:
\* it is retryable and its retry_after is 1.
C24_Witness ==
    /\ observed.op = "except"
    /\ observed.cls = "RateLimitExceededError"
    /\ observed.is_retryable = Returned(PyBool(TRUE))
    /\ observed.retry_after = Returned(PyInt(1))

\* the blocks of query in the order of the source
QueryBlocks == <<"presence", "timeout", "format", "remote">>

\* C25: query validates in the order presence, timeout, format and reports the
\* first violated rule only: an empty phone_number with a timeout <= 0 gives
\* failure(MISSING_REQUIRED), and a non-empty malformed phone_number with a
\* timeout <= 0 gives failure(INVALID_INPUT), not VALIDATION_FAILED.
C25_ValidationOrder ==
    /\ Len(steps) <= Len(QueryBlocks)
    /\ \A i \in 1..Len(steps) : steps[i] = QueryBlocks[i]
    /\ (pc = "done" /\ timeout # PyNone /\ timeout.i <= 0) =>
          /\ ~Truthy(phone_number) => ReturnedFailure(outcome, "MISSING_REQUIRED")
          /\ (Truthy(phone_number) /\ ~WellFormed(phone_number)) =>
                ReturnedFailure(outcome, "INVALID_INPUT")

\* C26: Result.to_http_status() returns 200 exactly for a success; for a
\* failure that carries an error kind it returns the status ErrorCode maps the
\* kind to, which is never the fallback 500 because every member has an entry;
\* so it returns 500 exactly for a failure without an error kind; and
\* is_retryable() is the retryable flag of the kind, whatever the status.
C26_HttpStatus ==
    /\ \A e \in ErrorCode : ErrorCode_to_http_status(PyEnum(e)) # 500
    /\ observed.op = "to_http_status" =>
          /\ observed.ret.kind = "return"
          /\ observed.ret.value.i = 200 <=> result.success
          /\ (~result.success /\ result.error_code # PyNone) =>
                observed.ret.value.i = ErrorCode_to_http_status(result.error_code)
          /\ observed.ret.value.i = 500 <=> (~result.success /\ result.error_code = PyNone)
    /\ observed.op = "is_retryable" =>
          observed.ret = Returned(PyBool(/\ ~result.success
                                         /\ result.error_code # PyNone
                                         /\ enum_members[result.error_code.name].retryable))

\* C26 witness: to_http_status() was called on a failure Result built without
\* an error kind and gave 500.
C26_Witness ==
    /\ observed.op = "to_http_status"
    /\ ~result.success
    /\ result.error_code = PyNone
    /\ observed.ret = Returned(PyInt(500))

====
